---- MODULE Spec2Model ----
(***************************************************************************)
(* The request handlers of the Sebestian video API as a state machine.     *)
(*                                                                         *)
(* State: the scratch area temp/ on disk (job directories, the files in    *)
(* them, plain files written directly into temp/), the object store, and   *)
(* for every HTTP request its handler's position (pc), its locals and the  *)
(* response it has sent.  Every await of a handler is a step boundary:     *)
(* another request may run between two steps.  A throw inside Convert's    *)
(* outer try reaches the catch block synchronously, so the failure         *)
(* response is part of the step that throws.                               *)
(*                                                                         *)
(* External tools (ffmpeg, HTTP downloads, uploads) are black boxes: each  *)
(* invocation nondeterministically fails or succeeds, and a succeeding     *)
(* invocation writes an output file whose size is empty or not.            *)
(* fs.remove of one directory is taken as one step.                        *)
(***************************************************************************)
EXTENDS Integers, Sequences, FiniteSets, TLC

\* ---------------------------------------------------------------- bounds
MaxReq == 3            \* requests received in one behaviour
MaxFiles == 2          \* longest list of audio URLs that is downloaded
MaxInFlight == 2       \* handlers running at the same time
MaxText == 3           \* longest text handed to the drawtext escaping

\* ------------------------------------------------------ program constants
MaxAudioFiles == 20    \* files.length > 20 is rejected
MaxCaptionLen == 100   \* sanitized captions longer than this are rejected

Reqs == 1..MaxReq
NoJob == 0

\* sizes of a file on disk: empty, or with content
Empty == 0
Full == 2
ToolSizes == {Empty, Full}

\* sizes of the response a remote server sends for a URL, by class: Tiny (not
\* empty, under 1 KB), Full (an ordinary file, 1 MB to 25 MB), Big (over
\* 25 MB, at most 100 MB), Huge (over 100 MB)
Tiny == 1
Big == 3
Huge == 4
ServedSizes == {Tiny, Full, Big, Huge}
NoSize == 0 - 1

\* path.join(__dirname, "final_video"): the one directory of CreateVideoFromAudio,
\* outside TEMP_DIR (its files are named by the job id)
finalDir == 0 - 2

VARIABLES
  tempExists,   \* does TEMP_DIR exist
  dirs,         \* job directories in TEMP_DIR (named by job id)
  files,        \* files inside job directories (and inside finalDir): records
                \* [d, n, i, s]
  plain,        \* plain files directly in TEMP_DIR: records [n, s]
  bucket,       \* objects put into the object store by the requests that have
                \* not returned yet: records [j, n] (the store is write-only)
  s3,           \* the object-store settings of the environment: is each of
                \* AWS_ACCESS_KEY_ID, AWS_SECRET_ACCESS_KEY, AWS_S3_BUCKET non-empty
  startupDone,  \* the startup code has run
  down,         \* process.exit was called
  rq,           \* per request: kind, pc, body, locals, response, and history:
                \* tried (the tool tiers invoked in the stage in progress or
                \* in the stage that failed), made (the outputs some invocation
                \* produced), clean, prior, lost; lines is the play-list
                \* (concatLines) once it is written; pending holds the
                \* operations started with Promise.all that have not ended
  esc           \* the text handed to the drawtext escaping and what it
                \* returned: [text, out, by]

vars == <<tempExists, dirs, files, plain, bucket, s3, startupDone, down, rq, esc>>

\* ------------------------------------------------------------ object store
Env(k, s, b) == [key |-> k, secret |-> s, bucket |-> b]
Envs == {Env(k, s, b) : k \in BOOLEAN, s \in BOOLEAN, b \in BOOLEAN}

\* the two usual environments: everything set, nothing set
PlainEnvs == {Env(TRUE, TRUE, TRUE), Env(FALSE, FALSE, FALSE)}

\* a check that looks at the bucket name alone
isS3ConfiguredBucketOnly == s3.bucket

\* isS3Configured(): all three settings are non-empty
isS3Configured == s3.key /\ s3.secret /\ s3.bucket

\* a URL of a response: where it points ("s3": the object store, "local": this
\* process), the object or the download route it names, and the job id in it
\* (local URLs: "getVideo" is /api/ffmpeg/download/video/<jobId>, "getThumb"
\* /api/ffmpeg/download/thumbnail/<jobId>, "getAudio" /api/audio/download/<jobId>,
\* "tempFile" /temp/thumbnail.jpg)
Url(where, what, j) == [where |-> where, what |-> what, j |-> j]
NoUrl == Url("", "", NoJob)

\* the GET routes of the router that send a file of a job
DownloadRoutes == {"getVideo", "getThumb"}

\* ------------------------------------------------------------ file system
File(d, n, i, s) == [d |-> d, n |-> n, i |-> i, s |-> s]
Plain(n, s) == [n |-> n, s |-> s]

DirEntry(j) == [t |-> "dir", j |-> j, n |-> ""]
PlainEntry(n) == [t |-> "file", j |-> NoJob, n |-> n]

\* fs.readdir(TEMP_DIR)
readdirTemp == {DirEntry(j) : j \in dirs} \cup {PlainEntry(f.n) : f \in plain}

\* fs.pathExists(path.join(TEMP_DIR, jobId, name))
pathExists(j, n) == \E f \in files : f.d = j /\ f.n = n

\* fs.stat(path.join(TEMP_DIR, jobId, name)).size
FileSize(j, n) == (CHOOSE f \in files : f.d = j /\ f.n = n).s

\* fs.writeFile / a tool writing its output: an existing file of the same name
\* is replaced
WriteFile(fs, j, n, i, s) ==
  {f \in fs : ~(f.d = j /\ f.n = n /\ f.i = i)} \cup {File(j, n, i, s)}

\* fs.remove(path.join(TEMP_DIR, entry)): a directory goes with its files
RemoveDirFiles(fs, j) == {f \in fs : f.d # j}

\* ------------------------------------------------------------ request bodies
\* a caption: given (a truthy string), its trimmed length, and how many of its
\* characters are ' " or \
Cap(given, len, nq) == [given |-> given, len |-> len, nq |-> nq]
GoodCap == Cap(TRUE, 5, 0)
MissingCap == Cap(FALSE, 0, 0)
BlankCap == Cap(TRUE, 0, 0)
LongCap == Cap(TRUE, MaxCaptionLen + 1, 0)

\* files: is it an array, its length, the (1-based) position of an entry that is
\* no http(s) URL (0: every entry is one)
FilesField(arr, len, bad) == [arr |-> arr, len |-> len, bad |-> bad]

\* asize, isize: the size the remote servers send for the audio URLs and for
\* the image URL of the request
Body(f, img, v, s, p) ==
  [files |-> f, image |-> img, vibe |-> v, subtitle |-> s, param |-> p,
   asize |-> Full, isize |-> Full]

\* the same payload with URLs that serve files of the sizes a and i
Serving(b, a, i) == [b EXCEPT !.asize = a, !.isize = i]

NoFiles == FilesField(FALSE, 0, 0)

\* imageUrl: "missing", "nothttp", "png" (allowed extension), "png?q" (allowed
\* extension and a query string), "tiff" (extension not allowed)
ImageKinds == {"missing", "nothttp", "png", "png?q", "tiff"}

\* more image URLs, named by what follows the last dot of the path and by the
\* query string: upper case, the other allowed extensions, no extension, and
\* a query string that itself ends in an allowed extension
MoreImageKinds ==
  {"PNG", "Jpg?q", "jpg", "jpeg", "gif", "bmp", "webp", "tiff?u=a.png", "noext",
   "noext?u=a.png", "svg"}

\* a check of the whole URL, query string included
urlWithParams(img) == img

\* imageUrl.split('?')[0]: the URL up to the first '?', as its extension (the
\* text after the last dot of what is left; "" when there is no dot)
urlWithoutParams(img) ==
  CASE img = "png?q" -> "png"
    [] img = "Jpg?q" -> "Jpg"
    [] img = "tiff?u=a.png" -> "tiff"
    [] img \in {"noext", "noext?u=a.png"} -> ""
    [] OTHER -> img

\* the i flag of the regular expression: letters compare without case
LowerCase(ext) ==
  CASE ext = "PNG" -> "png"
    [] ext = "Jpg" -> "jpg"
    [] OTHER -> ext

\* /\.(jpg|jpeg|png|gif|bmp|webp)$/i
supportedImageFormats == {"jpg", "jpeg", "png", "gif", "bmp", "webp"}

ConvertBodies ==
  {Body(FilesField(TRUE, n, 0), "png", GoodCap, GoodCap, 0) : n \in 1..MaxFiles}
  \cup {Body(NoFiles, "png", GoodCap, GoodCap, 0),
        Body(FilesField(TRUE, MaxAudioFiles + 1, 0), "png", GoodCap, GoodCap, 0),
        Body(FilesField(TRUE, 1, 1), "png", GoodCap, GoodCap, 0),
        Body(FilesField(TRUE, 1, 0), "tiff", GoodCap, GoodCap, 0),
        Body(FilesField(TRUE, 1, 0), "png", BlankCap, GoodCap, 0),
        Body(FilesField(TRUE, 1, 0), "png", GoodCap, LongCap, 0)}

\* captions around the limits of the validation: exactly at the limit, over
\* it, over it only before the quotes and backslashes are removed, still over
\* it after they are removed, and nothing but quotes
Captions ==
  {GoodCap, MissingCap, BlankCap, LongCap,
   Cap(TRUE, MaxCaptionLen, 0), Cap(TRUE, MaxCaptionLen + 5, 5),
   Cap(TRUE, MaxCaptionLen + 3, 2), Cap(TRUE, 3, 3)}

\* values of the files field: missing, a string (no array), the empty array,
\* arrays of valid URLs up to one more than the maximum, and arrays with one
\* entry that is no http(s) URL at any position
PayloadFiles ==
  {NoFiles, FilesField(FALSE, 3, 0), FilesField(TRUE, 0, 0)}
  \cup {FilesField(TRUE, n, 0) : n \in 1..(MaxAudioFiles + 1)}
  \cup UNION {{FilesField(TRUE, n, k) : k \in 1..n} :
                n \in {1, 2, MaxAudioFiles, MaxAudioFiles + 1}}

\* payloads of POST /create-video for the validation alone
PayloadBodies ==
  {Body(f, img, v, s, 0) : f \in PayloadFiles, img \in ImageKinds \cup MoreImageKinds,
                           v \in Captions, s \in Captions}

\* valid payloads with every number of audio URLs, whose URLs serve files of
\* every size class
FetchBodies ==
  {Serving(Body(FilesField(TRUE, n, 0), "png", GoodCap, GoodCap, 0), a, i) :
     n \in 1..MaxAudioFiles, a \in ServedSizes, i \in ServedSizes}

\* payloads of POST /finalaudio with every number of audio URLs
FetchAudioBodies ==
  {Body(FilesField(TRUE, n, 0), "missing", MissingCap, MissingCap, 0) : n \in 1..MaxAudioFiles}

\* the bodies sent by clients whose create-video requests overlap
\* payloads of POST /final-video: audioUrl and imageUrl given or not (the
\* files field stands for audioUrl), and the sizes their servers send
FinalBodies ==
  {Serving(Body(f, img, MissingCap, MissingCap, 0), a, i) :
     f \in {NoFiles, FilesField(TRUE, 1, 0)}, img \in {"missing", "png"},
     a \in ServedSizes, i \in ServedSizes}

OverlapBodies ==
  {Body(FilesField(TRUE, 1, 0), "png", GoodCap, GoodCap, 0),
   Body(NoFiles, "png", GoodCap, GoodCap, 0)}

AudioBodies ==
  {Body(NoFiles, "missing", MissingCap, MissingCap, 0),
   Body(FilesField(TRUE, 1, 0), "missing", MissingCap, MissingCap, 0)}

ThumbBodies ==
  {Body(NoFiles, "missing", GoodCap, GoodCap, 0),
   Body(NoFiles, "png", GoodCap, GoodCap, 0)}

GetBodies == {Body(NoFiles, "missing", MissingCap, MissingCap, j) : j \in Reqs}

Kinds == {"convert", "audio", "thumb", "getVideo", "getThumb"}

BodiesOf(k) ==
  CASE k = "convert" -> ConvertBodies
    [] k = "audio" -> AudioBodies
    [] k = "thumb" -> ThumbBodies
    [] OTHER -> GetBodies

\* vibe.trim().replace(/['"\\]/g, '').length
SanitizedLen(c) == c.len - c.nq

\* a sanitization that leaves the caption as it came
SanitizeKeeps(c) == c

\* vibe.trim().replace(/['"\\]/g, ''): the caption used downstream
Sanitize(c) == Cap(c.given, SanitizedLen(c), 0)

\* a validation whose length check rejects a list of exactly 20 files
ValidationErrorOffByOne(b) ==
  IF ~b.files.arr \/ b.files.len = 0 THEN "files"
  ELSE IF b.files.len >= MaxAudioFiles THEN "max20"
  ELSE IF b.files.bad # 0 THEN "urls"
  ELSE IF b.image \in {"missing", "nothttp"} THEN "image"
  ELSE IF LowerCase(urlWithoutParams(b.image)) \notin supportedImageFormats THEN "format"
  ELSE IF ~b.vibe.given \/ b.vibe.len = 0 THEN "vibe"
  ELSE IF ~b.subtitle.given \/ b.subtitle.len = 0 THEN "subtitle"
  ELSE IF SanitizedLen(b.vibe) > MaxCaptionLen \/ SanitizedLen(b.subtitle) > MaxCaptionLen
       THEN "length"
  ELSE "ok"

\* Convert's input validation, in the order of the code: the first check that
\* rejects gives the 400 response's error, "ok" when every check passes
ValidationError(b) ==
  IF ~b.files.arr \/ b.files.len = 0 THEN "files"
  ELSE IF b.files.len > MaxAudioFiles THEN "max20"
  ELSE IF b.files.bad # 0 THEN "urls"
  ELSE IF b.image \in {"missing", "nothttp"} THEN "image"
  ELSE IF LowerCase(urlWithoutParams(b.image)) \notin supportedImageFormats THEN "format"
  ELSE IF ~b.vibe.given \/ b.vibe.len = 0 THEN "vibe"
  ELSE IF ~b.subtitle.given \/ b.subtitle.len = 0 THEN "subtitle"
  ELSE IF SanitizedLen(b.vibe) > MaxCaptionLen \/ SanitizedLen(b.subtitle) > MaxCaptionLen
       THEN "length"
  ELSE "ok"

\* ------------------------------------------------------------------ requests
NoEntry == PlainEntry("")

IdleReq ==
  [kind |-> "none", pc |-> "idle", body |-> Body(NoFiles, "missing", MissingCap, MissingCap, 0),
   jobId |-> NoJob, todo |-> {}, cur |-> NoEntry, idx |-> 0,
   clean |-> 0, resp |-> 0, err |-> "", urls |-> "", vsize |-> NoSize, tsize |-> NoSize,
   tried |-> {}, made |-> {}, prior |-> {}, lost |-> FALSE, lines |-> <<>>,
   videoUrl |-> NoUrl, thumbnailUrl |-> NoUrl, audioUrl |-> NoUrl, note |-> FALSE,
   pending |-> {},
   ctype |-> "", sent |-> NoEntry]

\* no text is being escaped
NoText == [text |-> <<>>, out |-> <<>>, by |-> "none"]

Init ==
  /\ tempExists \in BOOLEAN
  /\ dirs = {}
  /\ files = {}
  /\ plain = {}
  /\ bucket = {}
  /\ s3 \in PlainEnvs
  /\ startupDone = FALSE
  /\ down = FALSE
  /\ esc = NoText
  /\ rq = [r \in Reqs |-> IdleReq]

\* a Convert that validates first: its first statement is the validation
FirstPcSkipCleanup(k) ==
  CASE k = "convert" -> "c_validate"
    [] k = "audio" -> "a_cleanup"
    [] k = "thumb" -> "t_cleanup"
    [] k = "getVideo" -> "g_check"
    [] k = "getThumb" -> "g_check"

\* the first statement of each handler
FirstPc(k) ==
  CASE k = "convert" -> "c_cleanup"
    [] k = "audio" -> "a_cleanup"
    [] k = "thumb" -> "t_cleanup"
    [] k = "getVideo" -> "g_check"
    [] k = "getThumb" -> "g_check"
    [] k = "final" -> "v_start"
    [] k = "storage" -> "s_size"

\* what is remembered of a handler that has returned (its locals are gone): of
\* a create-video request the response it sent and that its entry cleanup
\* ran, of any other request that it was answered
Answered == 1

Returned(x) ==
  IF x.pc = "done"
  THEN [IdleReq EXCEPT !.kind = x.kind, !.pc = "done", !.jobId = x.jobId,
                       !.resp = IF x.kind = "convert" THEN x.resp ELSE Answered,
                       !.urls = IF x.kind = "convert" THEN x.urls ELSE "",
                       !.clean = IF x.kind = "convert" THEN x.clean ELSE 0]
  ELSE x

\* express dispatches a request to its handler (requests are numbered in the
\* order they arrive; the server listens once the startup code has run)
Receive(r, k, b) ==
  /\ ~down /\ startupDone
  /\ rq[r].pc = "idle"
  /\ \A q \in Reqs : q < r => rq[q].pc # "idle"
  /\ rq' = [q \in Reqs |->
              IF q = r
              THEN [rq[r] EXCEPT !.kind = k, !.pc = FirstPc(k), !.body = b,
                                 !.prior = {x \in Reqs : rq[x].resp # 0}]
              ELSE Returned(rq[q])]
  /\ bucket' = {x \in bucket : rq[x.j].pc # "done"}
  /\ UNCHANGED <<esc, tempExists, dirs, files, plain, s3, startupDone, down>>

\* the handlers that are running
Busy == {q \in Reqs : rq[q].pc \notin {"idle", "done"}}

\* the client sends a request once the handler of the previous one has returned
Sequential == Busy = {}

\* the startup IIFE: fs.ensureDir(TEMP_DIR) in a try/catch, nothing else
Startup ==
  /\ ~down /\ ~startupDone
  /\ startupDone' = TRUE
  /\ \E o \in {"fail", "ok"} : tempExists' = (tempExists \/ o = "ok")
  /\ UNCHANGED <<esc, dirs, files, plain, bucket, s3, down, rq>>

\* SIGTERM / SIGINT: log and process.exit(0); the handlers in progress end with
\* the process
gracefulShutdown ==
  /\ ~down
  /\ down' = TRUE
  /\ rq' = [r \in Reqs |-> IdleReq]
  /\ UNCHANGED <<esc, tempExists, dirs, files, plain, bucket, s3, startupDone>>

\* ------------------------------------------------------- external outcomes
\* a download, a tool invocation or an upload fails or succeeds
Outcomes == {"fail", "ok"}

\* an fs.remove that leaves the directory entry behind
RemoveDirKeeps(ds, j) == ds

\* fs.remove(dirPath) of a job directory, as seen in the set of directories
RemoveDir(ds, j) == ds \ {j}

\* history: a cleanup removed the directories js; an owner that has not been
\* answered yet lost its workspace in flight
NoteRemoved(q, js) ==
  [x \in Reqs |-> IF x \in js /\ x \in dirs /\ q[x].pc # "idle" /\ q[x].resp = 0
                  THEN [q[x] EXCEPT !.lost = TRUE] ELSE q[x]]

\* ------------------------------------------------ Convert: cleanupAllTempFiles
\* a for loop that never leaves the snapshot
AfterEntryStays(q, r, todo) == [q EXCEPT ![r].pc = "c_scan", ![r].clean = 1]

\* where the for loop over the snapshot goes with `todo` left: around again, or
\* out of cleanupAllTempFiles and on to getTempDirSize and the validation
AfterEntry(q, r, todo) ==
  [q EXCEPT ![r].todo = todo, ![r].cur = NoEntry,
            ![r].pc = IF todo = {} THEN "c_validate" ELSE "c_scan",
            ![r].clean = IF todo = {} THEN 2 ELSE 1]

\* a Convert that looks at the payload first and rejects an invalid one
\* before cleanupAllTempFiles is called
CleanupStartValidatesFirst(r) ==
  /\ ~down /\ rq[r].pc = "c_cleanup"
  /\ IF ValidationError(rq[r].body) # "ok"
     THEN /\ tempExists' = tempExists
          /\ rq' = [rq EXCEPT ![r].pc = "done", ![r].resp = 400, ![r].clean = 2,
                              ![r].err = ValidationError(rq[r].body)]
     ELSE IF ~tempExists
     THEN /\ tempExists' = TRUE
          /\ rq' = AfterEntry(rq, r, {})
     ELSE /\ tempExists' = tempExists
          /\ rq' = AfterEntry(rq, r, readdirTemp)
  /\ UNCHANGED <<esc, dirs, files, plain, bucket, s3, startupDone, down>>

\* pathExists(TEMP_DIR); when missing ensureDir and return, else readdir
CleanupStart(r) ==
  /\ ~down /\ rq[r].pc = "c_cleanup"
  /\ IF ~tempExists
     THEN /\ tempExists' = TRUE
          /\ rq' = AfterEntry(rq, r, {})
     ELSE /\ tempExists' = tempExists
          /\ rq' = AfterEntry(rq, r, readdirTemp)
  /\ UNCHANGED <<esc, dirs, files, plain, bucket, s3, startupDone, down>>

\* a loop whose every round ends in the inner catch: nothing is removed
CleanupScanSkips(r) ==
  /\ ~down /\ rq[r].pc = "c_scan"
  /\ \E e \in rq[r].todo : rq' = AfterEntry(rq, r, rq[r].todo \ {e})
  /\ UNCHANGED <<esc, tempExists, dirs, files, plain, bucket, s3, startupDone, down>>

\* one round of the for loop up to fs.remove: readdir(dirPath) and the stats of
\* its files; an entry that is no directory (ENOTDIR) or is gone (ENOENT) throws
\* into the inner catch and is skipped
CleanupScan(r) ==
  /\ ~down /\ rq[r].pc = "c_scan"
  /\ \E e \in rq[r].todo :
       IF e.t = "dir" /\ e.j \in dirs
       THEN rq' = [rq EXCEPT ![r].pc = "c_remove", ![r].cur = e,
                             ![r].todo = rq[r].todo \ {e}]
       ELSE rq' = AfterEntry(rq, r, rq[r].todo \ {e})
  /\ UNCHANGED <<esc, tempExists, dirs, files, plain, bucket, s3, startupDone, down>>

\* await fs.remove(dirPath), then the next round
CleanupRemove(r) ==
  /\ ~down /\ rq[r].pc = "c_remove"
  /\ LET j == rq[r].cur.j IN
       /\ dirs' = RemoveDir(dirs, j)
       /\ files' = RemoveDirFiles(files, j)
       /\ rq' = AfterEntry(NoteRemoved(rq, {j}), r, rq[r].todo)
  /\ UNCHANGED <<esc, tempExists, plain, bucket, s3, startupDone, down>>

\* ------------------------------------------------------------ Convert: body
\* a catch block that calls safeCleanup(jobDir) before it answers
ConvertCatchCleans(r, msg, t) ==
  /\ rq' = [rq EXCEPT ![r].pc = "done", ![r].err = msg,
                      ![r].tried = rq[r].tried \cup t,
                      ![r].resp = IF rq[r].resp # 0 THEN rq[r].resp ELSE 500]
  /\ dirs' = RemoveDir(dirs, rq[r].jobId)
  /\ files' = RemoveDirFiles(files, rq[r].jobId)
  /\ UNCHANGED <<esc, tempExists, plain, bucket, s3, startupDone, down>>

\* a catch block that answers 500 and lets the handler go on where it was
ConvertCatchGoesOn(r, msg, t) ==
  /\ rq' = [rq EXCEPT ![r].err = msg,
                      ![r].tried = rq[r].tried \cup t,
                      ![r].resp = IF rq[r].resp # 0 THEN rq[r].resp ELSE 500]
  /\ UNCHANGED <<esc, tempExists, dirs, files, plain, bucket, s3, startupDone, down>>

\* the catch block of Convert: no cleanup; a 500 response unless headers were sent
\* (t: the tool tiers whose invocation failed in the step that throws)
ConvertCatch(r, msg, t) ==
  /\ rq' = [rq EXCEPT ![r].pc = "done", ![r].err = msg,
                      ![r].tried = rq[r].tried \cup t,
                      ![r].resp = IF rq[r].resp # 0 THEN rq[r].resp ELSE 500]
  /\ UNCHANGED <<esc, tempExists, dirs, files, plain, bucket, s3, startupDone, down>>

\* a Convert that takes its job id before it validates, as ProcessAudio does
ConvertValidateAllocatesFirst(r) ==
  /\ ~down /\ rq[r].pc = "c_validate"
  /\ LET e == ValidationError(rq[r].body) IN
       IF e # "ok"
       THEN rq' = [rq EXCEPT ![r].pc = "done", ![r].resp = 400, ![r].err = e,
                             ![r].jobId = r]
       ELSE rq' = [rq EXCEPT ![r].pc = "c_alloc", ![r].jobId = r]
  /\ UNCHANGED <<esc, tempExists, dirs, files, plain, bucket, s3, startupDone, down>>

\* getTempDirSize (reads only), then the validation of the payload; a payload
\* that passes gets its job id (uuidv4: the request's own number)
ConvertValidate(r) ==
  /\ ~down /\ rq[r].pc = "c_validate"
  /\ LET e == ValidationError(rq[r].body) IN
       IF e # "ok"
       THEN rq' = [rq EXCEPT ![r].pc = "done", ![r].resp = 400, ![r].err = e]
       ELSE rq' = [rq EXCEPT ![r].pc = "c_alloc", ![r].jobId = r]
  /\ UNCHANGED <<esc, tempExists, dirs, files, plain, bucket, s3, startupDone, down>>

\* await fs.ensureDir(jobDir)
ConvertAllocate(r) ==
  /\ ~down /\ rq[r].pc = "c_alloc"
  /\ dirs' = dirs \cup {rq[r].jobId}
  /\ tempExists' = TRUE
  /\ rq' = [rq EXCEPT ![r].pc = "c_audio", ![r].idx = 1]
  /\ UNCHANGED <<esc, files, plain, bucket, s3, startupDone, down>>

\* downloadFile: axios rejects a response over maxSize (100 MB, the default
\* of every call); there is no other check of the size
Accepted(size) == size # Huge

\* a download loop whose failure message counts the file after the failed one
ConvertDownloadAudioNamesNext(r) ==
  /\ ~down /\ rq[r].pc = "c_audio"
  /\ \E o \in Outcomes :
       IF o = "ok" /\ rq[r].jobId \in dirs /\ Accepted(rq[r].body.asize)
       THEN /\ files' = WriteFile(files, rq[r].jobId, "audio", rq[r].idx, rq[r].body.asize)
            /\ rq' = [rq EXCEPT ![r].idx = rq[r].idx + 1,
                                ![r].pc = IF rq[r].idx = rq[r].body.files.len
                                          THEN "c_image" ELSE "c_audio"]
            /\ UNCHANGED <<esc, tempExists, dirs, plain, bucket, s3, startupDone, down>>
       ELSE /\ rq' = [rq EXCEPT ![r].pc = "done", ![r].err = "audio", ![r].resp = 500,
                                ![r].idx = rq[r].idx + 1]
            /\ UNCHANGED <<esc, tempExists, dirs, files, plain, bucket, s3, startupDone, down>>

\* Step 1: downloadFile(files[i]) into audio_i.mp3; a failure is rethrown
ConvertDownloadAudio(r) ==
  /\ ~down /\ rq[r].pc = "c_audio"
  /\ \E o \in Outcomes :
       IF o = "ok" /\ rq[r].jobId \in dirs /\ Accepted(rq[r].body.asize)
       THEN /\ files' = WriteFile(files, rq[r].jobId, "audio", rq[r].idx, rq[r].body.asize)
            /\ rq' = [rq EXCEPT ![r].idx = rq[r].idx + 1,
                                ![r].pc = IF rq[r].idx = rq[r].body.files.len
                                          THEN "c_image" ELSE "c_audio"]
            /\ UNCHANGED <<esc, tempExists, dirs, plain, bucket, s3, startupDone, down>>
       ELSE ConvertCatch(r, "audio", {})

\* Step 1.5: downloadFile(imageUrl) into background.<ext>
ConvertDownloadImage(r) ==
  /\ ~down /\ rq[r].pc = "c_image"
  /\ \E o \in Outcomes :
       IF o = "ok" /\ rq[r].jobId \in dirs /\ Accepted(rq[r].body.isize)
       THEN /\ files' = WriteFile(files, rq[r].jobId, "background", 0, rq[r].body.isize)
            /\ rq' = [rq EXCEPT ![r].pc = "c_silence"]
            /\ UNCHANGED <<esc, tempExists, dirs, plain, bucket, s3, startupDone, down>>
       ELSE ConvertCatch(r, "image", {})

\* Step 2: the silence file (runCommand outside any inner try)
ConvertSilence(r) ==
  /\ ~down /\ rq[r].pc = "c_silence"
  /\ \E o \in Outcomes :
       IF o = "ok" /\ rq[r].jobId \in dirs
       THEN /\ files' = WriteFile(files, rq[r].jobId, "silence", 0, Full)
            /\ rq' = [rq EXCEPT ![r].pc = "c_list"]
            /\ UNCHANGED <<esc, tempExists, dirs, plain, bucket, s3, startupDone, down>>
       ELSE ConvertCatch(r, "silence", {})

\* a line of the play-list: file '<path>' of the file named n, number i
Line(n, i) == [n |-> n, i |-> i]

\* a loop that adds the silence after every track, the last one too
concatLinesTrailing(track, i, n) ==
  [k \in 1..(2 * (n - i + 1)) |->
     IF k % 2 = 1 THEN Line(track, i + (k \div 2)) ELSE Line("silence", 0)]

\* the loop that fills concatLines, from track i up to track n: the track, and
\* the silence file after each track except the last
RECURSIVE concatLines(_, _, _)
concatLines(track, i, n) ==
  IF i > n THEN <<>>
  ELSE <<Line(track, i)>> \o (IF i < n THEN <<Line("silence", 0)>> ELSE <<>>)
         \o concatLines(track, i + 1, n)

\* Step 2: fs.writeFile(listFile, concatText); the tracks are the downloaded
\* files themselves
ConvertList(r) ==
  /\ ~down /\ rq[r].pc = "c_list"
  /\ IF rq[r].jobId \in dirs
     THEN /\ files' = WriteFile(files, rq[r].jobId, "list", 0, Full)
          /\ rq' = [rq EXCEPT ![r].pc = "c_merge",
                              ![r].lines = concatLines("audio", 1, rq[r].body.files.len)]
          /\ UNCHANGED <<esc, tempExists, dirs, plain, bucket, s3, startupDone, down>>
     ELSE ConvertCatch(r, "list", {})

\* a tool that recreates the missing directories of its output path
ToolRunsWithoutDir(r, o) == o = "ok"

\* runCommand: the tool exits 0 and leaves its output file (empty or not), or
\* the invocation fails; it cannot succeed when the job directory is gone
ToolRuns(r, o) == o = "ok" /\ rq[r].jobId \in dirs

\* Step 3: one ffmpeg invocation merges the list and applies loudnorm; any
\* failure is rethrown as "Failed to merge and normalize audio"
ConvertMerge(r) ==
  /\ ~down /\ rq[r].pc = "c_merge"
  /\ \E o \in Outcomes :
       IF ToolRuns(r, o)
       THEN /\ files' = WriteFile(files, rq[r].jobId, "final_audio", 0, Full)
            /\ rq' = [rq EXCEPT ![r].pc = "c_merge_stat",
                                ![r].tried = rq[r].tried \cup {"norm1"},
                                ![r].made = rq[r].made \cup {"audio"}]
            /\ UNCHANGED <<esc, tempExists, dirs, plain, bucket, s3, startupDone, down>>
       ELSE ConvertCatch(r, "merge", {"norm1"})

\* fs.stat(finalFile) inside the same try
ConvertMergeStat(r) ==
  /\ ~down /\ rq[r].pc = "c_merge_stat"
  /\ IF pathExists(rq[r].jobId, "final_audio")
     THEN /\ rq' = [rq EXCEPT ![r].pc = "c_video", ![r].tried = {}]
          /\ UNCHANGED <<esc, tempExists, dirs, files, plain, bucket, s3, startupDone, down>>
     ELSE ConvertCatch(r, "merge", {})

\* a primary encode whose failure fails the job at once
ConvertVideoNoFallback(r) ==
  /\ ~down /\ rq[r].pc = "c_video"
  /\ \E o \in Outcomes, sz \in ToolSizes :
       IF ToolRuns(r, o)
       THEN /\ files' = WriteFile(files, rq[r].jobId, "final_video", 0, sz)
            /\ rq' = [rq EXCEPT ![r].pc = "c_video_stat",
                                ![r].tried = rq[r].tried \cup {"video1"},
                                ![r].made = rq[r].made \cup {"video"}]
            /\ UNCHANGED <<esc, tempExists, dirs, plain, bucket, s3, startupDone, down>>
       ELSE ConvertCatch(r, "video", {"video1"})

\* --------------------------------------------------------- drawtext escaping
\* a text is a sequence of characters, named: the seven characters the
\* escaping treats, the double quote, and a letter
Chars == {"backslash", "colon", "quote", "lbracket", "rbracket", "comma",
          "semicolon", "dquote", "a"}

RECURSIVE Replace(_, _, _)
\* String.prototype.replace with a global one-character pattern: one pass over
\* the text, the replacement is not scanned again
Replace(text, c, by) ==
  IF text = <<>> THEN <<>>
  ELSE (IF Head(text) = c THEN by ELSE <<Head(text)>>) \o Replace(Tail(text), c, by)

\* an escaping that treats the backslash last, after the other replacements
\* have added theirs
escapeDrawtextBackslashLast(text) ==
  LET t1 == Replace(text, "colon", <<"backslash", "colon">>)
      t2 == Replace(t1, "quote", <<"quote", "backslash", "backslash", "backslash", "quote", "quote">>)
      t3 == Replace(t2, "lbracket", <<"backslash", "lbracket">>)
      t4 == Replace(t3, "rbracket", <<"backslash", "rbracket">>)
      t5 == Replace(t4, "comma", <<"backslash", "comma">>)
      t6 == Replace(t5, "semicolon", <<"backslash", "semicolon">>)
  IN Replace(t6, "backslash", <<"backslash", "backslash", "backslash", "backslash">>)

\* escapeDrawtext of Convert: seven replacements, in the order of the code
escapeDrawtext(text) ==
  LET t1 == Replace(text, "backslash", <<"backslash", "backslash", "backslash", "backslash">>)
      t2 == Replace(t1, "colon", <<"backslash", "colon">>)
      t3 == Replace(t2, "quote", <<"quote", "backslash", "backslash", "backslash", "quote", "quote">>)
      t4 == Replace(t3, "lbracket", <<"backslash", "lbracket">>)
      t5 == Replace(t4, "rbracket", <<"backslash", "rbracket">>)
      t6 == Replace(t5, "comma", <<"backslash", "comma">>)
  IN Replace(t6, "semicolon", <<"backslash", "semicolon">>)

\* escapeText of the thumbnail controller: the same seven replacements
escapeText(text) ==
  LET t1 == Replace(text, "backslash", <<"backslash", "backslash", "backslash", "backslash">>)
      t2 == Replace(t1, "colon", <<"backslash", "colon">>)
      t3 == Replace(t2, "quote", <<"quote", "backslash", "backslash", "backslash", "quote", "quote">>)
      t4 == Replace(t3, "lbracket", <<"backslash", "lbracket">>)
      t5 == Replace(t4, "rbracket", <<"backslash", "rbracket">>)
      t6 == Replace(t5, "comma", <<"backslash", "comma">>)
  IN Replace(t6, "semicolon", <<"backslash", "semicolon">>)

Texts == UNION {[1..n -> Chars] : n \in 0..MaxText}

\* a call of escapeDrawtext with the text esc.text
CallEscapeDrawtext ==
  /\ esc.by = "none"
  /\ esc' = [esc EXCEPT !.out = escapeDrawtext(esc.text), !.by = "escapeDrawtext"]
  /\ UNCHANGED <<tempExists, dirs, files, plain, bucket, s3, startupDone, down, rq>>

\* a call of escapeText with the text esc.text
CallEscapeText ==
  /\ esc.by = "none"
  /\ esc' = [esc EXCEPT !.out = escapeText(esc.text), !.by = "escapeText"]
  /\ UNCHANGED <<tempExists, dirs, files, plain, bucket, s3, startupDone, down, rq>>

\* the two encode invocations of step 6, by the options that shape the frame:
\* the -vf filter chain, the x264 preset, the quality level and the bitrate caps
videoCommand ==
  [vf |-> <<"scale", "crop">>, preset |-> "slow", crf |-> 18,
   rate |-> <<"b:v 5000k", "maxrate 8000k", "bufsize 10000k">>,
   pix |-> "yuv420p"]

simpleCommand ==
  [vf |-> <<"scale", "crop">>, preset |-> "medium", crf |-> 23,
   rate |-> <<>>, pix |-> "yuv420p"]

\* Step 6: the primary encode; a failure enters the fallback
ConvertVideo(r) ==
  /\ ~down /\ rq[r].pc = "c_video"
  /\ \E o \in Outcomes, sz \in ToolSizes :
       IF ToolRuns(r, o)
       THEN /\ files' = WriteFile(files, rq[r].jobId, "final_video", 0, sz)
            /\ rq' = [rq EXCEPT ![r].pc = "c_video_stat",
                                ![r].tried = rq[r].tried \cup {"video1"},
                                ![r].made = rq[r].made \cup {"video"}]
            /\ UNCHANGED <<esc, tempExists, dirs, plain, bucket, s3, startupDone, down>>
       ELSE /\ rq' = [rq EXCEPT ![r].pc = "c_video2",
                                ![r].tried = rq[r].tried \cup {"video1"}]
            /\ UNCHANGED <<esc, tempExists, dirs, files, plain, bucket, s3, startupDone, down>>

\* fs.stat(videoFile) in the primary's try: a throw enters the fallback too
ConvertVideoStat(r) ==
  /\ ~down /\ rq[r].pc = "c_video_stat"
  /\ rq' = IF pathExists(rq[r].jobId, "final_video")
           THEN [rq EXCEPT ![r].pc = "c_thumb1", ![r].tried = {}]
           ELSE [rq EXCEPT ![r].pc = "c_video2"]
  /\ UNCHANGED <<esc, tempExists, dirs, files, plain, bucket, s3, startupDone, down>>

\* the fallback encode; its failure fails the job
ConvertVideoFallback(r) ==
  /\ ~down /\ rq[r].pc = "c_video2"
  /\ \E o \in Outcomes, sz \in ToolSizes :
       IF ToolRuns(r, o)
       THEN /\ files' = WriteFile(files, rq[r].jobId, "final_video", 0, sz)
            /\ rq' = [rq EXCEPT ![r].pc = "c_video2_stat",
                                ![r].tried = rq[r].tried \cup {"video2"},
                                ![r].made = rq[r].made \cup {"video"}]
            /\ UNCHANGED <<esc, tempExists, dirs, plain, bucket, s3, startupDone, down>>
       ELSE ConvertCatch(r, "video", {"video2"})

ConvertVideoFallbackStat(r) ==
  /\ ~down /\ rq[r].pc = "c_video2_stat"
  /\ IF pathExists(rq[r].jobId, "final_video")
     THEN /\ rq' = [rq EXCEPT ![r].pc = "c_thumb1", ![r].tried = {}]
          /\ UNCHANGED <<esc, tempExists, dirs, files, plain, bucket, s3, startupDone, down>>
     ELSE ConvertCatch(r, "video", {})

\* Step 7, tier k of the thumbnail: on success the output is written and the
\* handler goes to `next`; on failure it goes to `fallback`
ThumbTier(r, tier, next, fallback) ==
  \E o \in Outcomes, sz \in ToolSizes :
    IF ToolRuns(r, o)
    THEN /\ files' = WriteFile(files, rq[r].jobId, "thumbnail", 0, sz)
         /\ rq' = [rq EXCEPT ![r].pc = next,
                             ![r].tried = IF next = "c_deliver" THEN {}
                                          ELSE rq[r].tried \cup {tier},
                             ![r].made = rq[r].made \cup {"thumb"}]
         /\ UNCHANGED <<esc, tempExists, dirs, plain, bucket, s3, startupDone, down>>
    ELSE /\ rq' = [rq EXCEPT ![r].pc = fallback,
                             ![r].tried = rq[r].tried \cup {tier}]
         /\ UNCHANGED <<esc, tempExists, dirs, files, plain, bucket, s3, startupDone, down>>

\* tier 1: drawtext with the font file
ConvertThumb1(r) ==
  /\ ~down /\ rq[r].pc = "c_thumb1"
  /\ ThumbTier(r, "thumb1", "c_thumb1_stat", "c_thumb2")

\* a tier 1 that is followed by tier 2 whether it succeeded or not
ConvertThumb1StatRetries(r) ==
  /\ ~down /\ rq[r].pc = "c_thumb1_stat"
  /\ rq' = [rq EXCEPT ![r].pc = "c_thumb2"]
  /\ UNCHANGED <<esc, tempExists, dirs, files, plain, bucket, s3, startupDone, down>>

\* fs.stat(thumbnailFile) in tier 1's try
ConvertThumb1Stat(r) ==
  /\ ~down /\ rq[r].pc = "c_thumb1_stat"
  /\ rq' = IF pathExists(rq[r].jobId, "thumbnail")
           THEN [rq EXCEPT ![r].pc = "c_deliver", ![r].tried = {}]
           ELSE [rq EXCEPT ![r].pc = "c_thumb2"]
  /\ UNCHANGED <<esc, tempExists, dirs, files, plain, bucket, s3, startupDone, down>>

\* tier 2: drawtext without fontfile
ConvertThumb2(r) ==
  /\ ~down /\ rq[r].pc = "c_thumb2"
  /\ ThumbTier(r, "thumb2", "c_deliver", "c_thumb3")

\* a final tier whose failure is swallowed: the job goes on without thumbnail
ThumbnailSkipped(r) ==
  /\ rq' = [rq EXCEPT ![r].pc = "c_deliver",
                      ![r].tried = rq[r].tried \cup {"thumb3"}]
  /\ UNCHANGED <<esc, tempExists, dirs, files, plain, bucket, s3, startupDone, down>>

\* finalThumbnailError: throw new Error("Failed to create thumbnail")
ThumbnailExhausted(r) == ConvertCatch(r, "thumbnail", {"thumb3"})

\* tier 3: no text; its failure fails the job
ConvertThumb3(r) ==
  /\ ~down /\ rq[r].pc = "c_thumb3"
  /\ \E o \in Outcomes, sz \in ToolSizes :
       IF ToolRuns(r, o)
       THEN /\ files' = WriteFile(files, rq[r].jobId, "thumbnail", 0, sz)
            /\ rq' = [rq EXCEPT ![r].pc = "c_deliver", ![r].tried = {},
                                ![r].made = rq[r].made \cup {"thumb"}]
            /\ UNCHANGED <<esc, tempExists, dirs, plain, bucket, s3, startupDone, down>>
       ELSE ThumbnailExhausted(r)

\* Step 8: fs.stat(videoFile), the empty-video check, then isS3Configured()
ConvertDeliver(r) ==
  /\ ~down /\ rq[r].pc = "c_deliver"
  /\ IF ~pathExists(rq[r].jobId, "final_video")
     THEN ConvertCatch(r, "return", {})
     ELSE IF FileSize(rq[r].jobId, "final_video") = Empty
     THEN ConvertCatch(r, "return", {})
     ELSE /\ rq' = [rq EXCEPT ![r].pc = IF isS3Configured THEN "c_upload_video" ELSE "c_respond",
                              ![r].vsize = FileSize(rq[r].jobId, "final_video")]
          /\ UNCHANGED <<esc, tempExists, dirs, files, plain, bucket, s3, startupDone, down>>

\* uploadToS3(localFile, key): readFile, the check of the bucket name, then
\* PutObject; each may throw
uploadToS3(r, n, file, next) ==
  \E o \in Outcomes :
    IF o = "ok" /\ s3.bucket /\ pathExists(rq[r].jobId, file)
    THEN /\ bucket' = bucket \cup {[j |-> rq[r].jobId, n |-> n]}
         /\ rq' = [rq EXCEPT ![r].pc = next]
         /\ UNCHANGED <<esc, tempExists, dirs, files, plain, s3, startupDone, down>>
    ELSE ConvertCatch(r, "return", {})

ConvertUploadVideo(r) ==
  /\ ~down /\ rq[r].pc = "c_upload_video"
  /\ uploadToS3(r, "video", "final_video", "c_upload_thumb")

ConvertUploadThumb(r) ==
  /\ ~down /\ rq[r].pc = "c_upload_thumb"
  /\ uploadToS3(r, "thumbnail", "thumbnail", "c_respond")

\* fs.stat(thumbnailFile), then res.json({success: true, ...}) with both URLs
ConvertRespond(r) ==
  /\ ~down /\ rq[r].pc = "c_respond"
  /\ IF pathExists(rq[r].jobId, "thumbnail")
     THEN /\ rq' = [rq EXCEPT ![r].pc = "c_final", ![r].resp = 200,
                              ![r].urls = IF isS3Configured THEN "s3" ELSE "local",
                              ![r].videoUrl =
                                 IF isS3Configured THEN Url("s3", "video", rq[r].jobId)
                                 ELSE Url("local", "getVideo", rq[r].jobId),
                              ![r].thumbnailUrl =
                                 IF isS3Configured THEN Url("s3", "thumbnail", rq[r].jobId)
                                 ELSE Url("local", "getThumb", rq[r].jobId),
                              ![r].note = ~isS3Configured,
                              ![r].tsize = FileSize(rq[r].jobId, "thumbnail")]
          /\ UNCHANGED <<esc, tempExists, dirs, files, plain, bucket, s3, startupDone, down>>
     ELSE ConvertCatch(r, "return", {})

\* a getTempDirSize that throws after the response, into a catch block that
\* answers without looking at res.headersSent
ConvertFinalSizeAnswersAgain(r) ==
  /\ ~down /\ rq[r].pc = "c_final"
  /\ \E o \in Outcomes :
       rq' = [rq EXCEPT ![r] = Returned([rq[r] EXCEPT !.pc = "done",
                                                      !.resp = IF o = "ok" THEN @ ELSE 500])]
  /\ UNCHANGED <<esc, tempExists, dirs, files, plain, bucket, s3, startupDone, down>>

\* getTempDirSize after the response: reads only, never throws; Convert returns
ConvertFinalSize(r) ==
  /\ ~down /\ rq[r].pc = "c_final"
  /\ rq' = [rq EXCEPT ![r] = Returned([rq[r] EXCEPT !.pc = "done"])]
  /\ UNCHANGED <<esc, tempExists, dirs, files, plain, bucket, s3, startupDone, down>>

Convert(r) ==
  \/ CleanupStart(r) \/ CleanupScan(r) \/ CleanupRemove(r)
  \/ ConvertValidate(r) \/ ConvertAllocate(r)
  \/ ConvertDownloadAudio(r) \/ ConvertDownloadImage(r)
  \/ ConvertSilence(r) \/ ConvertList(r)
  \/ ConvertMerge(r) \/ ConvertMergeStat(r)
  \/ ConvertVideo(r) \/ ConvertVideoStat(r)
  \/ ConvertVideoFallback(r) \/ ConvertVideoFallbackStat(r)
  \/ ConvertThumb1(r) \/ ConvertThumb1Stat(r) \/ ConvertThumb2(r) \/ ConvertThumb3(r)
  \/ ConvertDeliver(r) \/ ConvertUploadVideo(r) \/ ConvertUploadThumb(r)
  \/ ConvertRespond(r) \/ ConvertFinalSize(r)

\* the steps of Convert outside cleanupAllTempFiles
ConvertBody(r) ==
  \/ ConvertValidate(r) \/ ConvertAllocate(r)
  \/ ConvertDownloadAudio(r) \/ ConvertDownloadImage(r)
  \/ ConvertSilence(r) \/ ConvertList(r)
  \/ ConvertMerge(r) \/ ConvertMergeStat(r)
  \/ ConvertVideo(r) \/ ConvertVideoStat(r)
  \/ ConvertVideoFallback(r) \/ ConvertVideoFallbackStat(r)
  \/ ConvertThumb1(r) \/ ConvertThumb1Stat(r) \/ ConvertThumb2(r) \/ ConvertThumb3(r)
  \/ ConvertDeliver(r) \/ ConvertUploadVideo(r) \/ ConvertUploadThumb(r)
  \/ ConvertRespond(r) \/ ConvertFinalSize(r)

\* ------------------------------------------------------------- ProcessAudio
\* the catch block of ProcessAudio and of CreateThumbnail: res.status(500)
HandlerCatch(r, msg) ==
  /\ rq' = [rq EXCEPT ![r].pc = "done", ![r].err = msg, ![r].resp = 500]
  /\ UNCHANGED <<esc, tempExists, dirs, files, plain, bucket, s3, startupDone, down>>

AudioAfterEntry(q, r, todo) ==
  [q EXCEPT ![r].todo = todo,
            ![r].pc = IF todo = {} THEN "a_alloc" ELSE "a_rm",
            ![r].jobId = IF todo = {} THEN r ELSE NoJob]

\* the cleanup block: pathExists(TEMP_DIR), readdir
AudioCleanupStart(r) ==
  /\ ~down /\ rq[r].pc = "a_cleanup"
  /\ rq' = AudioAfterEntry(rq, r, IF tempExists THEN readdirTemp ELSE {})
  /\ UNCHANGED <<esc, tempExists, dirs, files, plain, bucket, s3, startupDone, down>>

\* fs.remove(dirPath) of one entry, directory or plain file
AudioCleanupRemove(r) ==
  /\ ~down /\ rq[r].pc = "a_rm"
  /\ \E e \in rq[r].todo :
       /\ dirs' = IF e.t = "dir" THEN RemoveDir(dirs, e.j) ELSE dirs
       /\ files' = IF e.t = "dir" THEN RemoveDirFiles(files, e.j) ELSE files
       /\ plain' = IF e.t = "file" THEN {f \in plain : f.n # e.n} ELSE plain
       /\ rq' = AudioAfterEntry(IF e.t = "dir" THEN NoteRemoved(rq, {e.j}) ELSE rq,
                                r, rq[r].todo \ {e})
  /\ UNCHANGED <<esc, tempExists, bucket, s3, startupDone, down>>

\* fs.ensureDir(jobDir), and only then the check of req.body.files
AudioAllocate(r) ==
  /\ ~down /\ rq[r].pc = "a_alloc"
  /\ dirs' = dirs \cup {rq[r].jobId}
  /\ tempExists' = TRUE
  /\ IF ~rq[r].body.files.arr \/ rq[r].body.files.len = 0
     THEN rq' = [rq EXCEPT ![r].pc = "done", ![r].resp = 400, ![r].err = "files"]
     ELSE rq' = [rq EXCEPT ![r].pc = "a_audio", ![r].idx = 1]
  /\ UNCHANGED <<esc, files, plain, bucket, s3, startupDone, down>>

\* Step 1: isHttpUrl(url), downloadFile
AudioDownload(r) ==
  /\ ~down /\ rq[r].pc = "a_audio"
  /\ \E o \in Outcomes :
       IF rq[r].body.files.bad # rq[r].idx /\ o = "ok" /\ rq[r].jobId \in dirs
       THEN /\ files' = WriteFile(files, rq[r].jobId, "audio", rq[r].idx, Full)
            /\ rq' = [rq EXCEPT ![r].idx = IF rq[r].idx = rq[r].body.files.len
                                           THEN 1 ELSE rq[r].idx + 1,
                                ![r].pc = IF rq[r].idx = rq[r].body.files.len
                                          THEN "a_sanitize" ELSE "a_audio"]
            /\ UNCHANGED <<esc, tempExists, dirs, plain, bucket, s3, startupDone, down>>
       ELSE HandlerCatch(r, "audio")

\* one tool invocation of ProcessAudio writing `out`
AudioTool(r, out, i, next, nextIdx) ==
  \E o \in Outcomes :
    IF ToolRuns(r, o)
    THEN /\ files' = WriteFile(files, rq[r].jobId, out, i, Full)
         /\ rq' = [rq EXCEPT ![r].pc = next, ![r].idx = nextIdx,
                             ![r].tried = rq[r].tried \cup {out}]
         /\ UNCHANGED <<esc, tempExists, dirs, plain, bucket, s3, startupDone, down>>
    ELSE HandlerCatch(r, out)

\* Step 2: sanitizeMp3ToWav for each download
AudioSanitize(r) ==
  /\ ~down /\ rq[r].pc = "a_sanitize"
  /\ IF rq[r].idx = rq[r].body.files.len
     THEN AudioTool(r, "wav", rq[r].idx, "a_silence", 0)
     ELSE AudioTool(r, "wav", rq[r].idx, "a_sanitize", rq[r].idx + 1)

\* Step 3: the silence file
AudioSilence(r) ==
  /\ ~down /\ rq[r].pc = "a_silence"
  /\ AudioTool(r, "silence", 0, "a_list", 0)

\* Step 3: fs.writeFile(listFile); the tracks are the sanitized wav files
AudioList(r) ==
  /\ ~down /\ rq[r].pc = "a_list"
  /\ IF rq[r].jobId \in dirs
     THEN /\ files' = WriteFile(files, rq[r].jobId, "list", 0, Full)
          /\ rq' = [rq EXCEPT ![r].pc = "a_merge",
                              ![r].lines = concatLines("wav", 1, rq[r].body.files.len)]
          /\ UNCHANGED <<esc, tempExists, dirs, plain, bucket, s3, startupDone, down>>
     ELSE HandlerCatch(r, "list")

\* Step 4: merge to merged.wav
AudioMerge(r) ==
  /\ ~down /\ rq[r].pc = "a_merge"
  /\ AudioTool(r, "merged", 0, "a_norm", 0)

\* Step 4: loudnorm to final_audio.m4a
AudioNormalize(r) ==
  /\ ~down /\ rq[r].pc = "a_norm"
  /\ AudioTool(r, "final_audio", 0, "a_stat", 0)

\* fs.stat(finalAudio); without object storage the response follows at once
AudioStat(r) ==
  /\ ~down /\ rq[r].pc = "a_stat"
  /\ IF ~pathExists(rq[r].jobId, "final_audio")
     THEN HandlerCatch(r, "stat")
     ELSE /\ rq' = IF isS3Configured THEN [rq EXCEPT ![r].pc = "a_upload"]
                   ELSE [rq EXCEPT ![r].pc = "done", ![r].resp = 200, ![r].urls = "local",
                                   ![r].audioUrl = Url("local", "getAudio", rq[r].jobId)]
          /\ UNCHANGED <<esc, tempExists, dirs, files, plain, bucket, s3, startupDone, down>>

\* Step 5: uploadToS3(finalAudio), then the response
AudioUpload(r) ==
  /\ ~down /\ rq[r].pc = "a_upload"
  /\ \E o \in Outcomes :
       IF o = "ok" /\ pathExists(rq[r].jobId, "final_audio")
       THEN /\ bucket' = bucket \cup {[j |-> rq[r].jobId, n |-> "audio"]}
            /\ rq' = [rq EXCEPT ![r].pc = "done", ![r].resp = 200, ![r].urls = "s3",
                                ![r].audioUrl = Url("s3", "audio", rq[r].jobId)]
            /\ UNCHANGED <<esc, tempExists, dirs, files, plain, s3, startupDone, down>>
       ELSE HandlerCatch(r, "upload")

ProcessAudio(r) ==
  \/ AudioCleanupStart(r) \/ AudioCleanupRemove(r) \/ AudioAllocate(r)
  \/ AudioDownload(r) \/ AudioSanitize(r) \/ AudioSilence(r) \/ AudioList(r)
  \/ AudioMerge(r) \/ AudioNormalize(r) \/ AudioStat(r) \/ AudioUpload(r)

\* ----------------------------------------------------------- CreateThumbnail
\* Step 1: fs.emptyDir(TEMP_DIR) (or ensureDir), then the check of the body
ThumbCleanup(r) ==
  /\ ~down /\ rq[r].pc = "t_cleanup"
  /\ tempExists' = TRUE
  /\ dirs' = {}
  /\ files' = {f \in files : f.d = finalDir}
  /\ plain' = {}
  /\ LET q == NoteRemoved(rq, dirs)
         b == rq[r].body IN
       IF b.image = "missing" \/ ~b.vibe.given \/ ~b.subtitle.given
       THEN rq' = [q EXCEPT ![r].pc = "done", ![r].resp = 400, ![r].err = "required"]
       ELSE rq' = [q EXCEPT ![r].pc = "t_download"]
  /\ UNCHANGED <<esc, bucket, s3, startupDone, down>>

\* Step 2: downloadFile(imageUrl) to TEMP_DIR/background.<ext>
ThumbDownload(r) ==
  /\ ~down /\ rq[r].pc = "t_download"
  /\ \E o \in Outcomes :
       IF o = "ok"
       THEN /\ plain' = {f \in plain : f.n # "background"} \cup {Plain("background", Full)}
            /\ rq' = [rq EXCEPT ![r].pc = "t_render"]
            /\ UNCHANGED <<esc, tempExists, dirs, files, bucket, s3, startupDone, down>>
       ELSE HandlerCatch(r, "image")

\* Step 4: one drawtext invocation writing TEMP_DIR/thumbnail.jpg
ThumbRender(r) ==
  /\ ~down /\ rq[r].pc = "t_render"
  /\ \E o \in Outcomes :
       IF o = "ok" /\ (\E f \in plain : f.n = "background")
       THEN /\ plain' = {f \in plain : f.n # "thumbnail"} \cup {Plain("thumbnail", Full)}
            /\ rq' = [rq EXCEPT ![r].pc = "t_stat"]
            /\ UNCHANGED <<esc, tempExists, dirs, files, bucket, s3, startupDone, down>>
       ELSE HandlerCatch(r, "thumbnail")

\* fs.stat(thumbnailFile); without object storage the response follows at once
ThumbStat(r) ==
  /\ ~down /\ rq[r].pc = "t_stat"
  /\ IF ~(\E f \in plain : f.n = "thumbnail")
     THEN HandlerCatch(r, "stat")
     ELSE /\ rq' = IF isS3Configured THEN [rq EXCEPT ![r].pc = "t_upload"]
                   ELSE [rq EXCEPT ![r].pc = "done", ![r].resp = 200, ![r].urls = "local",
                                   ![r].thumbnailUrl = Url("local", "tempFile", NoJob)]
          /\ UNCHANGED <<esc, tempExists, dirs, files, plain, bucket, s3, startupDone, down>>

\* Step 5: uploadToS3(thumbnailFile), then the response
ThumbUpload(r) ==
  /\ ~down /\ rq[r].pc = "t_upload"
  /\ \E o \in Outcomes :
       IF o = "ok" /\ (\E f \in plain : f.n = "thumbnail")
       THEN /\ bucket' = bucket \cup {[j |-> r, n |-> "thumbnail"]}
            /\ rq' = [rq EXCEPT ![r].pc = "done", ![r].resp = 200, ![r].urls = "s3",
                                ![r].thumbnailUrl = Url("s3", "thumbnail", NoJob)]
            /\ UNCHANGED <<esc, tempExists, dirs, files, plain, s3, startupDone, down>>
       ELSE HandlerCatch(r, "upload")

CreateThumbnail(r) ==
  \/ ThumbCleanup(r) \/ ThumbDownload(r) \/ ThumbRender(r) \/ ThumbStat(r) \/ ThumbUpload(r)

\* ------------------------------------------------------ CreateVideoFromAudio
\* the name in finalDir of what a download of CreateVideoFromAudio writes
FinalFile(op) == IF op = "image" THEN "background" ELSE "audio"

\* st.size < 1024: "seems empty"
SeemsEmpty(size) == size \in {Empty, Tiny}

\* st.size < 1_000_000: "Output video seems too small"
TooSmall(size) == size \in {Empty, Tiny}

\* uuidv4() before the try, the check of audioUrl and imageUrl, then
\* fs.ensureDir(finalDir)
FinalStart(r) ==
  /\ ~down /\ rq[r].pc = "v_start"
  /\ IF ~rq[r].body.files.arr \/ rq[r].body.image = "missing"
     THEN rq' = [rq EXCEPT ![r].pc = "done", ![r].resp = 400, ![r].err = "required",
                           ![r].jobId = r]
     ELSE rq' = [rq EXCEPT ![r].pc = "v_empty", ![r].jobId = r]
  /\ UNCHANGED <<esc, tempExists, dirs, files, plain, bucket, s3, startupDone, down>>

\* fs.emptyDir(finalDir); then Promise.all calls downloadFile twice, and both
\* requests are under way before either is awaited
FinalEmptyDir(r) ==
  /\ ~down /\ rq[r].pc = "v_empty"
  /\ files' = {f \in files : f.d # finalDir}
  /\ rq' = [rq EXCEPT ![r].pc = "v_fetch", ![r].pending = {"image", "audio"}]
  /\ UNCHANGED <<esc, tempExists, dirs, plain, bucket, s3, startupDone, down>>

\* one of the downloads under way ends: the request fails, or the stream is
\* written to finalDir and a file under 1 KB throws.  Promise.all rejects at
\* the first failure (the catch block answers 500) and resolves when both are
\* done; a download still under way after the rejection ends unobserved
FinalDownload(r) ==
  /\ ~down /\ rq[r].pc \in {"v_fetch", "done"}
  /\ \E op \in rq[r].pending : \E o \in Outcomes :
       LET size == IF op = "image" THEN rq[r].body.isize ELSE rq[r].body.asize
           left == rq[r].pending \ {op}
           failed == o = "fail" \/ SeemsEmpty(size)
       IN /\ files' = IF o = "ok" THEN WriteFile(files, finalDir, FinalFile(op), r, size)
                      ELSE files
          /\ rq' = IF rq[r].pc = "done" THEN [rq EXCEPT ![r].pending = left]
                   ELSE IF failed
                   THEN [rq EXCEPT ![r].pending = left, ![r].pc = "done",
                                   ![r].resp = 500, ![r].err = op]
                   ELSE [rq EXCEPT ![r].pending = left,
                                   ![r].pc = IF left = {} THEN "v_render" ELSE "v_fetch"]
  /\ UNCHANGED <<esc, tempExists, dirs, plain, bucket, s3, startupDone, down>>

\* spawn(FFMPEG_PATH, args): exit code 0 and the video in finalDir, or a throw
FinalRender(r) ==
  /\ ~down /\ rq[r].pc = "v_render"
  /\ \E o \in Outcomes, sz \in {Empty, Tiny, Full} :
       IF o = "ok" /\ (\A n \in {"background", "audio"} :
                         \E f \in files : f.d = finalDir /\ f.n = n /\ f.i = r)
       THEN /\ files' = WriteFile(files, finalDir, "final", r, sz)
            /\ rq' = [rq EXCEPT ![r].pc = "v_check", ![r].made = {"video"}]
            /\ UNCHANGED <<esc, tempExists, dirs, plain, bucket, s3, startupDone, down>>
       ELSE HandlerCatch(r, "video")

\* fs.pathExists(videoPath), fs.stat(videoPath) and the 1 MB check, then
\* if (!isS3Configured()) throw new Error("S3 is not configured.")
FinalCheck(r) ==
  /\ ~down /\ rq[r].pc = "v_check"
  /\ LET out == {f \in files : f.d = finalDir /\ f.n = "final" /\ f.i = r} IN
       IF out = {} THEN HandlerCatch(r, "stat")
       ELSE IF \E f \in out : TooSmall(f.s) THEN HandlerCatch(r, "small")
       ELSE IF ~isS3Configured
       THEN /\ rq' = [rq EXCEPT ![r].pc = "done", ![r].vsize = Full, ![r].resp = 500,
                                ![r].err = "S3 is not configured."]
            /\ UNCHANGED <<esc, tempExists, dirs, files, plain, bucket, s3, startupDone, down>>
       ELSE /\ rq' = [rq EXCEPT ![r].pc = "v_upload", ![r].vsize = Full]
            /\ UNCHANGED <<esc, tempExists, dirs, files, plain, bucket, s3, startupDone, down>>

\* uploadToS3(videoPath, key), then res.json with the link
FinalUpload(r) ==
  /\ ~down /\ rq[r].pc = "v_upload"
  /\ \E o \in Outcomes :
       IF o = "ok" /\ s3.bucket
            /\ (\E f \in files : f.d = finalDir /\ f.n = "final" /\ f.i = r)
       THEN /\ bucket' = bucket \cup {[j |-> r, n |-> "video"]}
            /\ rq' = [rq EXCEPT ![r].pc = "done", ![r].resp = 200, ![r].urls = "s3",
                                ![r].videoUrl = Url("s3", "video", r)]
            /\ UNCHANGED <<esc, tempExists, dirs, files, plain, s3, startupDone, down>>
       ELSE HandlerCatch(r, "upload")

CreateVideoFromAudio(r) ==
  \/ FinalStart(r) \/ FinalEmptyDir(r) \/ FinalDownload(r)
  \/ FinalRender(r) \/ FinalCheck(r) \/ FinalUpload(r)

\* ------------------------------------------- downloadVideo / downloadThumbnail
\* download routes that hand out each other's file
ServedFileSwapped(k) == IF k = "getVideo" THEN "thumbnail" ELSE "final_video"

\* download/video/:jobId is downloadVideo and serves final_video.mp4,
\* download/thumbnail/:jobId is downloadThumbnail and serves thumbnail.jpg
ServedFile(k) == IF k = "getVideo" THEN "final_video" ELSE "thumbnail"

\* res.setHeader("Content-Type", ...)
ContentType(k) == IF k = "getVideo" THEN "video/mp4" ELSE "image/jpeg"

\* a download handler that goes on to fs.stat without looking
DownloadCheckSkipped(r) ==
  /\ ~down /\ rq[r].pc = "g_check"
  /\ rq' = [rq EXCEPT ![r].pc = "g_stat"]
  /\ UNCHANGED <<esc, tempExists, dirs, files, plain, bucket, s3, startupDone, down>>

\* fs.pathExists(file): 404 when the file is not there
DownloadCheck(r) ==
  /\ ~down /\ rq[r].pc = "g_check"
  /\ IF pathExists(rq[r].body.param, ServedFile(rq[r].kind))
     THEN rq' = [rq EXCEPT ![r].pc = "g_stat"]
     ELSE rq' = [rq EXCEPT ![r].pc = "done", ![r].resp = 404]
  /\ UNCHANGED <<esc, tempExists, dirs, files, plain, bucket, s3, startupDone, down>>

\* fs.stat(file), the headers and the stream; a throw answers 500
DownloadStream(r) ==
  /\ ~down /\ rq[r].pc = "g_stat"
  /\ IF pathExists(rq[r].body.param, ServedFile(rq[r].kind))
     THEN rq' = [rq EXCEPT ![r].pc = "done", ![r].resp = 200,
                           ![r].ctype = ContentType(rq[r].kind),
                           ![r].sent = [t |-> "file", j |-> rq[r].body.param,
                                        n |-> ServedFile(rq[r].kind)]]
     ELSE rq' = [rq EXCEPT ![r].pc = "done", ![r].resp = 500]
  /\ UNCHANGED <<esc, tempExists, dirs, files, plain, bucket, s3, startupDone, down>>

Download(r) == DownloadCheck(r) \/ DownloadStream(r)

\* ------------------------------------------------------------ getStorageInfo
\* a size check that creates TEMP_DIR when it is missing
StorageSizeEnsuresDir(r) ==
  /\ ~down /\ rq[r].pc = "s_size"
  /\ tempExists' = TRUE
  /\ rq' = [rq EXCEPT ![r].pc = "s_count"]
  /\ UNCHANGED <<esc, dirs, files, plain, bucket, s3, startupDone, down>>

\* getTempDirSize(): pathExists, readdir and stat, every error swallowed
StorageSize(r) ==
  /\ ~down /\ rq[r].pc = "s_size"
  /\ rq' = [rq EXCEPT ![r].pc = "s_count"]
  /\ UNCHANGED <<esc, tempExists, dirs, files, plain, bucket, s3, startupDone, down>>

\* pathExists(TEMP_DIR), readdir(TEMP_DIR) and res.json: activeTempDirectories
\* is the number of entries of temp/ (kept in idx)
StorageCount(r) ==
  /\ ~down /\ rq[r].pc = "s_count"
  /\ rq' = [rq EXCEPT ![r].pc = "done", ![r].resp = 200,
                      ![r].idx = IF tempExists THEN Cardinality(readdirTemp) ELSE 0]
  /\ UNCHANGED <<esc, tempExists, dirs, files, plain, bucket, s3, startupDone, down>>

getStorageInfo(r) == StorageSize(r) \/ StorageCount(r)

\* ------------------------------------------------------------ specifications
Handle(r) == Convert(r) \/ ProcessAudio(r) \/ CreateThumbnail(r) \/ Download(r)

\* create-video requests arrive whenever they like, up to MaxInFlight of them:
\* nothing serializes them
Next ==
  \/ \E r \in Reqs : \E b \in OverlapBodies :
       r <= MaxInFlight /\ Receive(r, "convert", b)
  \/ \E r \in Reqs : Convert(r)
  \/ Startup
  \/ gracefulShutdown

Spec == Init /\ [][Next]_vars

\* strictly sequential clients: a request is sent after the previous response
NextSeq ==
  \/ \E r \in Reqs, k \in Kinds : \E b \in BodiesOf(k) : Sequential /\ Receive(r, k, b)
  \/ \E r \in Reqs : Handle(r)
  \/ Startup
  \/ gracefulShutdown

SpecSeq == Init /\ [][NextSeq]_vars

\* the first request after startup, its handler past an entry cleanup that
\* found temp/ empty
FirstRequest(k, pc, b) ==
  [r \in Reqs |-> IF r = 1
                  THEN [IdleReq EXCEPT !.kind = k, !.pc = pc, !.body = b,
                                       !.clean = IF k = "convert" THEN 2 ELSE 0,
                                       !.jobId = IF k = "audio" THEN r ELSE NoJob]
                  ELSE IdleReq]

InitOne ==
  /\ tempExists = TRUE
  /\ dirs = {}
  /\ files = {}
  /\ plain = {}
  /\ bucket = {}
  /\ s3 = Env(FALSE, FALSE, FALSE)
  /\ startupDone = TRUE
  /\ down = FALSE
  /\ esc = NoText

\* one create-video request with any payload, through validation and allocation
InitValidate ==
  /\ InitOne
  /\ \E b \in PayloadBodies : rq = FirstRequest("convert", "c_validate", b)

NextValidate == \E r \in Reqs : ConvertValidate(r) \/ ConvertAllocate(r)

SpecValidate == InitValidate /\ [][NextValidate]_vars

\* one create-video or finalaudio request with a valid payload, from the
\* validation to the written play-list
InitFetch ==
  /\ InitOne
  /\ \/ \E b \in FetchBodies : rq = FirstRequest("convert", "c_validate", b)
     \/ \E b \in FetchAudioBodies : rq = FirstRequest("audio", "a_alloc", b)

NextFetch ==
  \E r \in Reqs :
    \/ ConvertValidate(r) \/ ConvertAllocate(r)
    \/ ConvertDownloadAudio(r) \/ ConvertDownloadImage(r)
    \/ ConvertSilence(r) \/ ConvertList(r)
    \/ AudioAllocate(r) \/ AudioDownload(r) \/ AudioSanitize(r)
    \/ AudioSilence(r) \/ AudioList(r)

SpecFetch == InitFetch /\ [][NextFetch]_vars

\* one create-video request with a valid payload in every environment, from
\* the validation to the response
InitJob ==
  /\ tempExists = TRUE
  /\ dirs = {}
  /\ files = {}
  /\ plain = {}
  /\ bucket = {}
  /\ s3 \in Envs
  /\ startupDone = TRUE
  /\ down = FALSE
  /\ esc = NoText
  /\ rq = FirstRequest("convert", "c_validate",
                       Body(FilesField(TRUE, 1, 0), "png", GoodCap, GoodCap, 0))

NextJob == \E r \in Reqs : ConvertBody(r)

SpecJob == InitJob /\ [][NextJob]_vars

\* one final-video request, in both usual environments
InitFinal ==
  /\ tempExists = TRUE
  /\ dirs = {}
  /\ files = {}
  /\ plain = {}
  /\ bucket = {}
  /\ s3 \in PlainEnvs
  /\ startupDone = TRUE
  /\ down = FALSE
  /\ esc = NoText
  /\ \E b \in FinalBodies : rq = FirstRequest("final", "v_start", b)

NextFinal == \E r \in Reqs : CreateVideoFromAudio(r)

SpecFinal == InitFinal /\ [][NextFinal]_vars

\* the two uploads of Convert: s3Client.send has no timeout
ConvertUploads(r) == ConvertUploadVideo(r) \/ ConvertUploadThumb(r)

\* the steps of Convert that the event loop is sure to take: the file-system
\* calls return, a download ends within its axios timeout (60 s) and a tool
\* invocation within the timeout of exec (300 s)
ConvertSure(r) ==
  \/ CleanupStart(r) \/ CleanupScan(r) \/ CleanupRemove(r)
  \/ ConvertValidate(r) \/ ConvertAllocate(r)
  \/ ConvertDownloadAudio(r) \/ ConvertDownloadImage(r)
  \/ ConvertSilence(r) \/ ConvertList(r)
  \/ ConvertMerge(r) \/ ConvertMergeStat(r)
  \/ ConvertVideo(r) \/ ConvertVideoStat(r)
  \/ ConvertVideoFallback(r) \/ ConvertVideoFallbackStat(r)
  \/ ConvertThumb1(r) \/ ConvertThumb1Stat(r) \/ ConvertThumb2(r) \/ ConvertThumb3(r)
  \/ ConvertDeliver(r) \/ ConvertRespond(r) \/ ConvertFinalSize(r)

\* create-video requests one after another
NextLive ==
  \/ \E r \in Reqs : \E b \in ConvertBodies : Sequential /\ Receive(r, "convert", b)
  \/ \E r \in Reqs : Convert(r)
  \/ Startup
  \/ gracefulShutdown

\* create-video requests whose downloads, tool invocations and file-system
\* calls all end
SpecLive == Init /\ [][NextLive]_vars /\ \A r \in Reqs : WF_vars(ConvertSure(r))

\* create-video jobs one after another, and storage-info requests that arrive
\* at any moment of them
NextInfo ==
  \/ \E r \in Reqs :
       /\ \A q \in Reqs : rq[q].kind = "convert" => rq[q].pc = "done"
       /\ Receive(r, "convert", Body(FilesField(TRUE, 1, 0), "png", GoodCap, GoodCap, 0))
  \/ \E r \in Reqs :
       Receive(r, "storage", Body(NoFiles, "missing", MissingCap, MissingCap, 0))
  \/ \E r \in Reqs : Convert(r) \/ getStorageInfo(r)
  \/ Startup

SpecInfo == Init /\ [][NextInfo]_vars

\* -------------------------------------------------------------------- claims
\* the create-video requests that have been received
Converts == {r \in Reqs : rq[r].kind = "convert"}

\* the positions of Convert inside cleanupAllTempFiles
EntryPcs == {"c_cleanup", "c_scan", "c_remove"}

\* C1: for every create-video request cleanupAllTempFiles has returned before
\* any field of the payload is validated and before a job id is allocated,
\* whether the payload is valid or not: a request past the entry positions, a
\* request with a job id and a request that was answered all have their
\* cleanup finished, and inside the entry positions nothing is validated yet
C1_CleanupBeforeValidation ==
  \A r \in Converts :
    /\ rq[r].pc \notin EntryPcs => rq[r].clean = 2
    /\ rq[r].pc \in EntryPcs =>
         rq[r].clean # 2 /\ rq[r].jobId = NoJob /\ rq[r].resp = 0 /\ rq[r].err = ""

\* an invalid request answered 400 after its cleanup removed the directory of
\* an earlier valid request that holds a job id
C1_Witness ==
  \E r, q \in Converts :
    /\ q < r /\ rq[q].jobId = q /\ q \notin dirs
    /\ rq[r].resp = 400 /\ rq[r].clean = 2 /\ rq[r].jobId = NoJob

\* C2: with sequential requests, when a create-video request is at the start
\* of its validation no scratch directory of an earlier request is left,
\* whatever the earlier requests were and however they ended
C2_NoEarlierDirsAtValidation ==
  \A r \in Converts :
    rq[r].pc = "c_validate" => {j \in dirs : j < r} = {}

\* a request starts its validation after a job that succeeded and a
\* job that failed with its directory allocated
C2_Witness ==
  \E p, q, r \in Converts :
    /\ p < q /\ q < r /\ rq[r].pc = "c_validate"
    /\ rq[p].resp = 200
    /\ rq[q].resp = 500 /\ rq[q].jobId = q

\* C3: with overlapping create-video requests another request's entry cleanup
\* can delete a job directory whose owner is between allocation and response
\* (the witness), and the owner then never answers success: a later stage of it
\* fails on the missing files
C3_LostWorkspaceFails ==
  \A a \in Converts :
    rq[a].lost => /\ rq[a].resp \in {0, 500}
                  /\ rq[a].jobId \notin dirs
                  /\ rq[a].pc = "done" => rq[a].resp = 500 /\ rq[a].err # ""

\* request a lost its directory to the cleanup of b while in flight and failed
C3_Witness ==
  \E a, b \in Converts :
    /\ a # b /\ rq[a].lost /\ rq[a].resp = 500 /\ rq[a].jobId = a
    /\ rq[b].clean = 2

\* C4: with sequential requests and no object storage, from the success
\* response of job N until the next create-video request is received the video
\* and the thumbnail of N are on disk (the download routes find them): no
\* request of another kind removes them
C4_DownloadableUntilNextVideo ==
  \A n \in Converts :
    (rq[n].resp = 200 /\ rq[n].urls = "local" /\ ~(\E q \in Converts : q > n))
      => pathExists(n, "final_video") /\ pathExists(n, "thumbnail")

C6_AtMostOneJobDir ==
  /\ Cardinality(dirs) <= 1
  /\ \A j \in dirs : \A q \in Reqs : rq[q].jobId # NoJob => q <= j

\* the only directory is the one of a second or later job, the first job's
\* directory is gone
C6_Witness ==
  \E j \in Converts :
    /\ dirs = {j} /\ j > 1
    /\ rq[1].kind = "convert" /\ rq[1].jobId = 1

\* C7: when cleanupAllTempFiles returns, temp/ has no entries at all, neither
\* job directories nor plain files written directly into it
C7_TempEmptyAfterCleanup ==
  \A r \in Converts : rq[r].pc = "c_validate" => readdirTemp = {}

\* the thumbnail tiers of Convert
ThumbTiers == {"thumb1", "thumb2", "thumb3"}

C9_SuccessOutputsNotEmpty ==
  \A r \in Converts :
    rq[r].pc = "c_final" =>
      /\ rq[r].vsize \notin {NoSize, Empty}
      /\ rq[r].tsize \notin {NoSize, Empty}

\* C10: the normalization stage fails only after all three strategies were
\* tried: a job that ended in the merge-and-normalize failure whose primary
\* invocation (norm1, loudnorm) failed has also attempted the secondary (norm2,
\* dynamic range normalization) and the tertiary one (norm3, flat gain)
C10_NormalizationTriesThree ==
  \A r \in Converts :
    (rq[r].err = "merge" /\ "norm1" \in rq[r].tried)
      => {"norm1", "norm2", "norm3"} \subseteq rq[r].tried

\* the positions of Convert after the video stage and before the response
AfterVideoPcs ==
  {"c_thumb1", "c_thumb1_stat", "c_thumb2", "c_thumb3", "c_deliver",
   "c_upload_video", "c_upload_thumb", "c_respond"}

Listed == {r \in Reqs : rq[r].pc \in {"c_merge", "a_merge"}}

\* the name of the track files a handler lists: Convert's downloads, or
\* ProcessAudio's sanitized copies
TrackOf(r) == IF rq[r].kind = "convert" THEN "audio" ELSE "wav"

C14_TracksAreRepaired ==
  \A r \in Listed :
    \A k \in 1..Len(rq[r].lines) : rq[r].lines[k].n \in {"wav", "silence"}

\* C15: a downloaded audio or image file under the minimum size fails the job
\* at the fetch stage: no handler is past its downloads with such a file in
\* its job directory
C15_TinyDownloadFailsFetch ==
  \A r \in Converts :
    rq[r].pc \in {"c_silence", "c_list", "c_merge"} =>
      ~(\E f \in files : f.d = rq[r].jobId /\ f.n \in {"audio", "background"} /\ f.s = Tiny)

\* C16: a download over the ceiling of its kind fails the job: no audio file
\* over 100 MB and no image over 25 MB is in the job directory of a handler
\* that is past its downloads
C16_DownloadCeilings ==
  \A r \in Converts :
    rq[r].pc \in {"c_silence", "c_list", "c_merge"} =>
      \A f \in files :
        f.d = rq[r].jobId =>
          /\ f.n = "audio" => f.s # Huge
          /\ f.n = "background" => f.s \notin {Big, Huge}

\* C17: a create-video request answered 400 was rejected before anything was
\* done for it: it has no job id, no job directory and no file of its own,
\* and it started no download and no tool
C17_RejectedBeforeAnyWork ==
  \A r \in Converts :
    rq[r].resp = 400 =>
      /\ rq[r].jobId = NoJob
      /\ r \notin dirs
      /\ ~(\E f \in files : f.d = r)
      /\ rq[r].idx = 0 /\ rq[r].tried = {} /\ rq[r].made = {}
      /\ rq[r].lines = <<>>

\* a create-video request was answered 400 for its payload
C17_Witness ==
  \E r \in Converts : rq[r].pc = "done" /\ rq[r].resp = 400 /\ rq[r].err # ""

\* C18: a files field that is no array, is empty, has more than 20 entries or
\* has an entry that is no http(s) URL is answered 400 with a files error and
\* nothing is downloaded; more than 20 entries give the maximum-of-20 error;
\* exactly 20 valid URLs pass the files checks, and with a valid rest of the
\* payload the job is accepted
C18_FilesValidated ==
  \A r \in Converts :
    rq[r].pc # "c_validate" =>
      LET f == rq[r].body.files
          bad == ~f.arr \/ f.len = 0 \/ f.len > MaxAudioFiles \/ f.bad # 0
      IN /\ bad => /\ rq[r].resp = 400 /\ rq[r].err \in {"files", "max20", "urls"}
                    /\ rq[r].jobId = NoJob /\ ~(\E g \in files : g.d = r)
         /\ (f.arr /\ f.len > MaxAudioFiles) => rq[r].err = "max20"
         /\ (f.arr /\ f.len = MaxAudioFiles /\ f.bad = 0) =>
              /\ rq[r].err \notin {"files", "max20", "urls"}
              /\ (rq[r].body.image = "png" /\ rq[r].body.vibe = GoodCap
                    /\ rq[r].body.subtitle = GoodCap) =>
                   (rq[r].resp # 400 /\ rq[r].jobId = r)

\* a list of 21 valid URLs was refused with the maximum-of-20 error
C18_Witness ==
  \E r \in Converts :
    /\ rq[r].body.files = FilesField(TRUE, MaxAudioFiles + 1, 0)
    /\ rq[r].resp = 400 /\ rq[r].err = "max20" /\ rq[r].pc = "done"

\* C19: with valid files, an image URL whose path (the part before any '?')
\* does not end in jpg, jpeg, png, gif, bmp or webp, in any letter case, is
\* answered 400 with the format error and nothing is fetched; one that does,
\* with or without a query string, passes the image checks
C19_ImageExtensionBeforeQuery ==
  \A r \in Converts :
    (rq[r].pc # "c_validate" /\ ValidationError(Body(rq[r].body.files, "png", GoodCap, GoodCap, 0)) = "ok") =>
      /\ rq[r].body.image \in {"tiff", "tiff?u=a.png", "noext", "noext?u=a.png", "svg"} =>
           /\ rq[r].resp = 400 /\ rq[r].err = "format"
           /\ rq[r].jobId = NoJob /\ ~(\E g \in files : g.d = r)
      /\ rq[r].body.image \in {"png", "png?q", "PNG", "Jpg?q", "jpg", "jpeg", "gif", "bmp", "webp"} =>
           rq[r].err \notin {"image", "format"}

\* an allowed extension followed by a query string was accepted
C19_Witness ==
  \E r \in Converts :
    /\ rq[r].body.image = "Jpg?q" /\ rq[r].jobId = r /\ rq[r].pc = "c_alloc"

\* C20: the captions a job works with have no quote and no backslash and are
\* at most 100 characters long; a caption still longer than 100 after the
\* removal is answered 400
C20_CaptionsSanitized ==
  \A r \in Converts :
    rq[r].pc # "c_validate" =>
      /\ rq[r].jobId # NoJob =>
           \A c \in {Sanitize(rq[r].body.vibe), Sanitize(rq[r].body.subtitle)} :
             c.nq = 0 /\ c.len <= MaxCaptionLen
      /\ (\E c \in {rq[r].body.vibe, rq[r].body.subtitle} : c.len - c.nq > MaxCaptionLen) =>
           rq[r].resp = 400

\* a caption of 105 characters, 5 of them quotes, got its job
C20_Witness ==
  \E r \in Converts :
    /\ rq[r].body.vibe = Cap(TRUE, MaxCaptionLen + 5, 5)
    /\ rq[r].jobId = r /\ rq[r].pc = "c_alloc"

C22_NoStorageIsNoError ==
  \A r \in Reqs :
    (~isS3Configured /\ rq[r].pc \in {"c_final", "done"} /\ rq[r].vsize # NoSize) =>
      /\ rq[r].resp = 200
      /\ rq[r].urls = "local" /\ rq[r].videoUrl.where = "local"

\* C26: within one job no two downloads, tool invocations or uploads are in
\* progress at the same time
C26_OneOperationAtATime ==
  \A r \in Reqs : Cardinality(rq[r].pending) <= 1

\* the download requests
Gets == {r \in Reqs : rq[r].kind \in {"getVideo", "getThumb"}}

C24_GoneIs404 ==
  \A g \in Gets :
    (rq[g].pc = "done" /\ rq[g].body.param # NoJob) =>
      LET j == rq[g].body.param
          name == IF rq[g].kind = "getVideo" THEN "final_video" ELSE "thumbnail"
      IN /\ (j \notin dirs \/ ~(\E f \in files : f.d = j /\ f.n = name)) =>
              rq[g].resp = 404
         /\ (\E q \in Converts : j < q /\ q < g /\ rq[q].clean = 2) =>
              rq[g].resp = 404

\* the download of a job that had succeeded is answered 404 after the entry
\* cleanup of a later create-video request
C24_Witness ==
  \E g \in Gets : \E n, q \in Converts :
    /\ n < q /\ q < g /\ rq[n].resp = 200 /\ rq[n].urls = "local" /\ rq[q].clean = 2
    /\ rq[g].pc = "done" /\ rq[g].body.param = rq[n].jobId /\ rq[g].resp = 404

C27_AlwaysAnswered ==
  \A r \in Reqs : (rq[r].pc = "c_cleanup") ~> (rq[r].resp # 0 \/ down)

\* C27, amended: every create-video request that was received is answered (or
\* the process was shut down), given that downloads, tool invocations and
\* file-system calls end and that every upload to the object store ends too
C27_AnsweredIfUploadsEnd ==
  (\A r \in Reqs : WF_vars(ConvertUploads(r))) => C27_AlwaysAnswered

\* a request was answered with object-store URLs: both uploads ended
C27_Witness ==
  \E r \in Converts :
    /\ rq[r].resp = 200 /\ rq[r].urls = "s3" /\ rq[r].pc = "done"
    /\ \E q \in Converts : q < r /\ rq[q].resp = 500 /\ rq[q].jobId \notin dirs

\* C28: every file a job writes lies inside a directory temp/<jobId> of its
\* own: nothing is written directly into temp/ or into a directory shared by
\* jobs, whatever the job endpoint
C28_FilesInOwnJobDir ==
  /\ plain = {}
  /\ \A f \in files : f.d \in Reqs /\ rq[f.d].jobId = f.d

\* C29: a step of the storage-info handler changes nothing: the scratch area
\* (temp/ itself, its directories, their files, its plain files) and the
\* object store are as before, and so is every other request, a job in
\* progress included
C29_StorageInfoOnlyReads ==
  [][\A r \in Reqs :
       getStorageInfo(r) =>
         /\ UNCHANGED <<esc, tempExists, dirs, files, plain, bucket>>
         /\ \A q \in Reqs \ {r} : rq'[q] = rq[q]]_vars

\* storage-info was answered while a create-video job was between its
\* downloads and its response, its directory counted
C29_Witness ==
  \E r \in Reqs : \E c \in Converts :
    /\ rq[r].kind = "storage" /\ rq[r].pc = "done" /\ rq[r].resp = 200 /\ rq[r].idx = 1
    /\ rq[c].pc = "c_video" /\ c \in dirs /\ pathExists(c, "final_audio")

\* C30: the fallback encode is invoked only when the primary encode invocation
\* itself has failed: no step invokes the fallback for a job whose primary
\* invocation had succeeded and written the video
C30_FallbackOnlyAfterPrimaryFailed ==
  [][\A r \in Reqs : ConvertVideoFallback(r) => "video" \notin rq[r].made]_vars

\* the two captions a handler hands to the drawtext escaping: Convert its
\* sanitized captions, CreateThumbnail the captions of the body, trimmed
drawtextCaptions(r) ==
  IF rq[r].kind = "convert"
  THEN {Sanitize(rq[r].body.vibe), Sanitize(rq[r].body.subtitle)}
  ELSE {rq[r].body.vibe, rq[r].body.subtitle}

\* the bodies of create-video and of thumbnail-creator requests with every
\* pair of captions, the other fields valid
CaptionBodies(k) ==
  {Body(IF k = "convert" THEN FilesField(TRUE, 1, 0) ELSE NoFiles, "png", v, s, 0) :
     v \in Captions, s \in Captions}

\* one create-video or thumbnail-creator request with any captions, in both
\* usual environments, from its first step to the response
InitCaption ==
  /\ tempExists = TRUE
  /\ dirs = {}
  /\ files = {}
  /\ plain = {}
  /\ bucket = {}
  /\ s3 \in PlainEnvs
  /\ startupDone = TRUE
  /\ down = FALSE
  /\ esc = NoText
  /\ \/ \E b \in CaptionBodies("convert") : rq = FirstRequest("convert", "c_validate", b)
     \/ \E b \in CaptionBodies("thumb") : rq = FirstRequest("thumb", "t_cleanup", b)

NextCaption == \E r \in Reqs : ConvertBody(r) \/ CreateThumbnail(r)

SpecCaption == InitCaption /\ [][NextCaption]_vars

\* one call of either escaping function with any text of up to MaxText
\* characters
InitEscape ==
  /\ tempExists = TRUE
  /\ dirs = {}
  /\ files = {}
  /\ plain = {}
  /\ bucket = {}
  /\ s3 = Env(FALSE, FALSE, FALSE)
  /\ startupDone = TRUE
  /\ down = FALSE
  /\ rq = [r \in Reqs |-> IdleReq]
  /\ \E t \in Texts : esc = [text |-> t, out |-> <<>>, by |-> "none"]

NextEscape == CallEscapeDrawtext \/ CallEscapeText

SpecEscape == InitEscape /\ [][NextEscape]_vars

\* ---------------------------------------------------------------------------
\* Claims C31..C39

Stages(chain) == {chain[i] : i \in DOMAIN chain}

\* C31: once the encode of a create-video job has been invoked, the primary
\* invocation's filter chain holds the zoom filter besides scale and crop, the
\* fallback's chain is the same without it, and apart from the zoom filter and
\* the preset the two invocations carry the same frame-shaping options.
C31_PrimaryZoomsFallbackDoesNot ==
  \A r \in Reqs :
    (rq[r].kind = "convert" /\ rq[r].tried \cap {"video1", "video2"} # {}) =>
      /\ Stages(videoCommand.vf) = {"scale", "crop", "zoompan"}
      /\ Stages(simpleCommand.vf) = {"scale", "crop"}
      /\ [videoCommand EXCEPT !.vf = <<>>, !.preset = ""]
           = [simpleCommand EXCEPT !.vf = <<>>, !.preset = ""]

\* the files of job j on disk
FilesOf(j) == {f \in files : f.d = j}

\* C32: a create-video job that failed in the download of an audio file
\* answers 500 with the message of that download, whose number (idx, counted
\* from 1) is the position of the failed file plus one; the directory holds the
\* audio files before it and nothing else (no later audio file, no image), and
\* no tool invocation was made.
C32_FailedDownloadStopsTheJob ==
  \A r \in Reqs :
    (rq[r].kind = "convert" /\ rq[r].pc = "done" /\ rq[r].err = "audio") =>
      /\ rq[r].resp = 500
      /\ rq[r].idx \in 1..rq[r].body.files.len
      /\ FilesOf(rq[r].jobId)
           = {File(rq[r].jobId, "audio", i, rq[r].body.asize) : i \in 1..(rq[r].idx - 1)}
      /\ rq[r].tried = {} /\ rq[r].made = {}

\* the second of three audio downloads failed
C32_Witness ==
  \E r \in Reqs :
    /\ rq[r].kind = "convert" /\ rq[r].pc = "done" /\ rq[r].err = "audio"
    /\ rq[r].body.files.len = 3 /\ rq[r].idx = 2
    /\ FilesOf(rq[r].jobId) = {File(rq[r].jobId, "audio", 1, Full)}

\* what the escaping owes to one character of its input
Escaped(c) ==
  CASE c = "backslash" -> <<"backslash", "backslash", "backslash", "backslash">>
    [] c = "quote" -> <<"quote", "backslash", "backslash", "backslash", "quote", "quote">>
    [] c \in {"colon", "lbracket", "rbracket", "comma", "semicolon"} -> <<"backslash", c>>
    [] OTHER -> <<c>>

RECURSIVE EachEscaped(_)
EachEscaped(text) ==
  IF text = <<>> THEN <<>> ELSE Escaped(Head(text)) \o EachEscaped(Tail(text))

\* C33: what either escaping function returns is its input with every
\* character replaced, once, by its own escape: a backslash before every colon,
\* bracket, comma and semicolon, the escape sequence for every backslash and
\* single quote, and no backslash added for one character escaped again.
C33_EscapesEachCharacterOnce ==
  esc.by # "none" => esc.out = EachEscaped(esc.text)

\* a text with a backslash before a colon and a quote was escaped
C33_Witness ==
  /\ esc.by = "escapeDrawtext"
  /\ esc.text = <<"backslash", "colon", "quote">>
  /\ Len(esc.out) = 12

\* the handler of r has built a thumbnail command with the captions in it
Interpolated(r) ==
  \/ rq[r].kind = "convert" /\ rq[r].pc \in {"c_thumb1_stat", "c_thumb2"}
  \/ rq[r].kind = "thumb" /\ rq[r].pc \in {"t_stat", "t_upload"}

\* C34: on create-video and on thumbnail-creator, the captions that were
\* escaped and put into a thumbnail command hold no quote and no backslash
\* character and are at most 100 characters long (they are sanitized).
C34_OnlySanitizedCaptionsDrawn ==
  \A r \in Reqs :
    Interpolated(r) =>
      \A c \in drawtextCaptions(r) : c.nq = 0 /\ c.len <= MaxCaptionLen

\* C35: a create-video request one of whose captions is empty once quote and
\* backslash characters are removed is rejected with 400 at validation and gets
\* no job: every allocated job has two non-empty sanitized captions.
C35_AllocatedCaptionsNotEmpty ==
  \A r \in Reqs :
    (rq[r].kind = "convert" /\ \E c \in drawtextCaptions(r) : c.len = 0) =>
      /\ rq[r].jobId = NoJob
      /\ rq[r].pc \in {"c_validate", "done"}
      /\ rq[r].pc = "done" => rq[r].resp = 400

\* C36: once a create-video request has been answered (200, 400 or 500), no
\* step of the program sends another response for it: the status it was
\* answered with stays as it is (until the process exits).
C36_AtMostOneResponse ==
  [][\A r \in Reqs :
       (rq[r].kind = "convert" /\ rq[r].resp # 0 /\ ~down') =>
         rq'[r].kind = "convert" /\ rq'[r].resp = rq[r].resp]_vars

\* a create-video request was answered with success, and its handler ran the
\* statements after the response and returned
C36_Witness ==
  \E r \in Reqs : rq[r].kind = "convert" /\ rq[r].resp = 200 /\ rq[r].pc = "done"

\* C37: with sequential requests, a create-video request that was rejected
\* with 400 got no job, yet its entry cleanup has run and no directory of an
\* earlier job is left; a GET on a download URL of an earlier successful job,
\* received after the rejected request, is answered 404.
C37_RejectedRequestStillCleans ==
  \A q \in Converts :
    rq[q].resp = 400 =>
      /\ rq[q].jobId = NoJob /\ rq[q].clean = 2
      /\ \A n \in Converts : (n < q /\ rq[n].jobId # NoJob) => rq[n].jobId \notin dirs
      /\ \A g \in Gets : \A n \in Converts :
           (/\ n < q /\ q < g /\ rq[n].resp = 200 /\ rq[n].urls = "local"
            /\ rq[g].pc = "done" /\ rq[g].body.param = rq[n].jobId) =>
             rq[g].resp = 404

\* a job succeeded, the next create-video request was rejected, and the
\* download of the first job's video is then answered 404
C37_Witness ==
  \E g \in Gets : \E n, q \in Converts :
    /\ n < q /\ q < g
    /\ rq[n].resp = 200 /\ rq[n].urls = "local"
    /\ rq[q].resp = 400 /\ rq[q].jobId = NoJob
    /\ rq[g].kind = "getVideo" /\ rq[g].pc = "done"
    /\ rq[g].body.param = rq[n].jobId /\ rq[g].resp = 404

\* C38: a create-video request that was answered with a failure has no object
\* of its job in the object store.
C38_FailureLeavesNothingPublished ==
  \A r \in Converts :
    rq[r].resp \in {400, 500} => ~(\E x \in bucket : x.j = rq[r].jobId)

\* the URLs of the response of r
UrlsOf(r) == {rq[r].videoUrl, rq[r].thumbnailUrl, rq[r].audioUrl} \ {NoUrl}

\* C39: every URL of a success response sent without object storage, by
\* create-video, finalaudio or thumbnail-creator, names one of the download
\* routes registered in this process.
C39_LocalUrlsAreRouted ==
  \A r \in Reqs :
    (rq[r].resp = 200 /\ rq[r].urls = "local") =>
      \A u \in UrlsOf(r) : u.where = "local" /\ u.what \in DownloadRoutes

====
